---- MODULE Spec2Model ----
(***************************************************************************)
(* Moneywise-API: the authentication flow (POST /register, POST /login),   *)
(* the isAuth gate in front of GET /me and GET /users, the validateData    *)
(* middleware and the expense routes, over the users and expenses tables.  *)
(*                                                                         *)
(* A handler is cut into atomic segments at its awaits on the database:    *)
(* everything a handler computes between two database operations is local  *)
(* to the request (Node runs it without interleaving on shared state), so  *)
(* it belongs to the segment of the database operation it follows.         *)
(***************************************************************************)
EXTENDS Integers, Sequences, FiniteSets, TLC

VARIABLES
    users,   \* the users table, rows in insertion order
    reqs,    \* per request: what arrived, where its handler is, what it answered
    now,     \* the clock jsonwebtoken reads, in hours
    expenses,\* the expenses table, rows in insertion order
    held     \* the tokens clients hold from registrations before the run

vars == <<users, reqs, now, expenses, held>>

---------------------------------------------------------------------------
(* Bounds of the model *)

MaxReq == 2        \* requests that arrive in one run
MaxTime == 1       \* hours the clock advances
MaxSalt == 1       \* distinct salts bcrypt may draw
MaxFaults == 1     \* requests in which a library or database call throws

(* Program constants *)

OK == 200
CREATED == 201
NO_CONTENT == 204
BAD_REQUEST == 400
UNAUTHORIZED == 401
NOT_FOUND == 404
CONFLICT == 409
INTERNAL_SERVER_ERROR == 500
TokenTTL == 1      \* expiresIn: "1h"

ReqIds == 1..MaxReq
Salts == 1..MaxSalt

JWT_SECRET == "server-secret"
OtherKey == "attacker-key"

Absent == ""       \* a body field that is undefined or the empty string

Usernames == {"alice", "bob"}
Emails == {"alice@example.com", "bob@example.com"}
RegisterPasswords == {"secret123"}
\* the text of the hash bcrypt gives "secret123" under the first salt: a
\* string like any other to whoever submits it as a password
HashText == "$2b$10$salt1$secret123"
LoginPasswords == {"secret123", "wrong"}
Incomes == {"3000"}

---------------------------------------------------------------------------
(* bcrypt.  A string handed to bcrypt is the plaintext it derives from     *)
(* and the salts of the hash layers applied to it so far; a plaintext has  *)
(* no layer.  hash adds one salted layer, compare recomputes the hash of   *)
(* the candidate with the salt stored in the hash and compares.            *)

Plain(p) == [plain |-> p, salts |-> <<>>]

\* a submitted string as bcrypt sees it
Submitted(s) ==
    IF s = HashText THEN [plain |-> "secret123", salts |-> <<1>>] ELSE Plain(s)

\* faulty variant: the value is handed on unhashed
bcryptHashNone(data, salt) == data
bcryptHash(data, salt) == [plain |-> data.plain, salts |-> Append(data.salts, salt)]

bcryptCompare(data, encrypted) ==
    /\ Len(encrypted.salts) > 0
    /\ bcryptHash(data, encrypted.salts[Len(encrypted.salts)]) = encrypted

---------------------------------------------------------------------------
(* jsonwebtoken.  A token is its payload and a signature over that payload *)
(* under a key; sign stamps iat (and exp when expiresIn is given).         *)

Mac(payload, key) == [over |-> payload, key |-> key]

\* expiresIn is <<>> (no option) or <<hours>>
jwtSign(claims, secret, expiresIn) ==
    LET payload == [idKey |-> claims.idKey, sub |-> claims.sub,
                    username |-> claims.username, iat |-> now,
                    exp |-> IF expiresIn = <<>> THEN <<>> ELSE <<now + expiresIn[1]>>]
    IN  [payload |-> payload, sig |-> Mac(payload, secret)]

\* A word of a header: plain text, or a JWT (whose text is non-empty)
TextWord(s) == [text |-> s, tok |-> <<>>]
JwtWord(t) == [text |-> "jwt", tok |-> <<t>>]

\* jwt.verify: throws on a malformed token, a bad signature or an expired
\* token; otherwise returns the decoded payload
jwtVerify(word, secret) ==
    IF word.tok = <<>> THEN [threw |-> TRUE, payload |-> <<>>]
    ELSE LET t == word.tok[1] IN
         IF t.sig # Mac(t.payload, secret) THEN [threw |-> TRUE, payload |-> <<>>]
         ELSE IF t.payload.exp # <<>> /\ now >= t.payload.exp[1]
              THEN [threw |-> TRUE, payload |-> <<>>]
         ELSE [threw |-> FALSE, payload |-> <<t.payload>>]

---------------------------------------------------------------------------
(* The users table *)

\* id: uuid defaultRandom, primary key: a fresh value per row
NewId == Len(users) + 1

\* faulty variant: a table without the UNIQUE constraints
usersTableNoUnique(row) == TRUE

\* username and email are UNIQUE columns: the insert fails on a collision
usersTable(row) ==
    \A i \in 1..Len(users) :
        users[i].username # row.username /\ users[i].email # row.email

\* faulty variant: the existence check looks at the email alone
selectEmailOnly(username, email) ==
    SelectSeq(users, LAMBDA u : u.email = email)

\* faulty variant: the existence check looks at the username alone
selectUsernameOnly(username, email) ==
    SelectSeq(users, LAMBDA u : u.username = username)

\* the rows checkIfUserExists selects: username OR email matches
selectUsernameOrEmail(username, email) ==
    SelectSeq(users, LAMBDA u : u.username = username \/ u.email = email)

checkIfUserExists(username, email) ==
    Len(selectUsernameOrEmail(username, email)) > 0

checkIfUserExistsWithUsername(username) ==
    SelectSeq(users, LAMBDA u : u.username = username)

---------------------------------------------------------------------------
(* Requests *)

NoBody == [username |-> Absent, email |-> Absent, password |-> Absent,
           monthlyIncome |-> Absent]

NoHeader == <<>>   \* req.get("Authorization") is undefined

IdleReq == [route |-> "none", pc |-> "idle", body |-> NoBody, header |-> NoHeader,
            status |-> 0, error |-> "", details |-> <<>>, user |-> <<>>,
            token |-> <<>>, userId |-> <<>>, nextCalls |-> 0, responses |-> 0,
            threw |-> "", userExists |-> FALSE, rows |-> <<>>,
            param |-> 0, expense |-> [userId |-> 0, amount |-> 0],
            expenses |-> <<>>, statusCode |-> OK, nodeEnv |-> Absent,
            stack |-> <<>>]

\* res.status(code).json({error}) followed by return
Respond(q, code, error) ==
    [q EXCEPT !.pc = "done", !.status = code, !.error = error,
              !.responses = @ + 1]

\* requests are numbered in the order they arrive
Arrives(r) ==
    /\ reqs[r].pc = "idle"
    /\ \A q \in ReqIds : q < r => reqs[q].pc # "idle"

\* the calls that may throw in request r: none, or one of `calls`
Faults(r, calls) ==
    IF Cardinality({q \in ReqIds \ {r} : reqs[q].threw # ""}) < MaxFaults
    THEN {""} \cup calls ELSE {""}

---------------------------------------------------------------------------
(* validateData(schema): a schema gives the issues of the ZodError its     *)
(* parse throws for a body, one per violated field, none when it succeeds  *)

ZodIssue(f) == [path |-> <<f>>, message |-> "Required"]

FieldNames == <<"username", "email", "password", "monthlyIncome">>

\* createUserSchema: every column of usersTable is required; username,
\* email and the password column are strings of at least one character
createUserSchema(body) ==
    LET bad == SelectSeq(FieldNames, LAMBDA f : body[f] = Absent)
    IN  [i \in 1..Len(bad) |-> ZodIssue(bad[i])]

\* loginUserSchema: username and password
loginUserSchema(body) ==
    LET bad == SelectSeq(<<"username", "password">>, LAMBDA f : body[f] = Absent)
    IN  [i \in 1..Len(bad) |-> ZodIssue(bad[i])]

\* issues: what schema.parse reports; otherThrow: parse threw something
\* that is no ZodError
\* `${issue.path.join(".")} is ${issue.message}`
errorMessages(issues) ==
    [i \in 1..Len(issues) |->
        [message |-> <<issues[i].path, "is", issues[i].message>>]]

\* faulty variant: the return after the 400 response is missing
validateDataNoReturn(q, issues, otherThrow) ==
    IF otherThrow
    THEN Respond(q, INTERNAL_SERVER_ERROR, "Internal Server Error")
    ELSE IF issues # <<>>
    THEN [Respond(q, BAD_REQUEST, "Invalid data") EXCEPT
            !.details = errorMessages(issues), !.nextCalls = @ + 1]
    ELSE [q EXCEPT !.nextCalls = @ + 1]
\* faulty variant: every exception of parse is taken for a ZodError
validateDataAllZod(q, issues, otherThrow) ==
    IF otherThrow \/ issues # <<>>
    THEN [Respond(q, BAD_REQUEST, "Invalid data") EXCEPT
            !.details = errorMessages(issues)]
    ELSE [q EXCEPT !.nextCalls = @ + 1]
\* faulty variant: a ZodError is answered with the status of the other branch
validateDataStatus(q, issues, otherThrow) ==
    IF otherThrow
    THEN Respond(q, INTERNAL_SERVER_ERROR, "Internal Server Error")
    ELSE IF issues # <<>>
    THEN [Respond(q, INTERNAL_SERVER_ERROR, "Invalid data") EXCEPT
            !.details = errorMessages(issues)]
    ELSE [q EXCEPT !.nextCalls = @ + 1]
validateData(q, issues, otherThrow) ==
    IF otherThrow
    THEN Respond(q, INTERNAL_SERVER_ERROR, "Internal Server Error")
    ELSE IF issues # <<>>
    THEN [Respond(q, BAD_REQUEST, "Invalid data") EXCEPT
            !.details = errorMessages(issues)]
    ELSE [q EXCEPT !.nextCalls = @ + 1]

---------------------------------------------------------------------------
(* POST /register: validateData(createUserSchema), createUserController    *)

\* faulty variant: the return after the 409 response is missing
createUserCheckNoReturn(q) ==
    LET b == q.body IN
    IF b.username = Absent \/ b.email = Absent \/ b.password = Absent
       \/ b.monthlyIncome = Absent
    THEN Respond(q, BAD_REQUEST, "All fields are required")
    ELSE IF q.threw = "select"
    THEN Respond(q, INTERNAL_SERVER_ERROR, "Could not create user")
    ELSE LET q1 == [q EXCEPT !.rows = selectUsernameOrEmail(b.username, b.email)] IN
    IF checkIfUserExists(b.username, b.email)
    THEN [Respond(q1, CONFLICT, "User already exists") EXCEPT
            !.userExists = TRUE, !.pc = "insert"]
    ELSE [q1 EXCEPT !.pc = "insert"]
\* createUserController up to the answer of checkIfUserExists
createUserCheck(q) ==
    LET b == q.body IN
    IF b.username = Absent \/ b.email = Absent \/ b.password = Absent
       \/ b.monthlyIncome = Absent
    THEN Respond(q, BAD_REQUEST, "All fields are required")
    ELSE IF q.threw = "select"
    THEN Respond(q, INTERNAL_SERVER_ERROR, "Could not create user")
    ELSE LET q1 == [q EXCEPT !.rows = selectUsernameOrEmail(b.username, b.email)] IN
    IF checkIfUserExists(b.username, b.email)
    THEN [Respond(q1, CONFLICT, "User already exists") EXCEPT !.userExists = TRUE]
    ELSE [q1 EXCEPT !.pc = "insert"]

\* faulty variant: the table is emptied before the row is inserted
insertUserReset(row) == <<row>>
\* db.insert(usersTable).values(row): the table afterwards
insertUser(row) == Append(users, row)

\* registerUser: the row handed to the insert
registerUser(user, salt) ==
    [id |-> NewId, username |-> user.username, email |-> user.email,
     password |-> bcryptHash(user.password, salt),
     monthlyIncome |-> user.monthlyIncome]

\* faulty variant: the token names another user id
registerClaimsOtherId(user) ==
    [idKey |-> "id", sub |-> user.id + 1, username |-> user.username]

\* the claims createUserController signs for the new user
registerClaims(user) == [idKey |-> "id", sub |-> user.id, username |-> user.username]

\* faulty variant: the failure of the insert is swallowed
createUserFinishSwallow(q, inserted, row) ==
    IF q.threw = "sign"
    THEN Respond(q, INTERNAL_SERVER_ERROR, "Could not create user")
    ELSE [Respond(q, CREATED, "") EXCEPT
            !.user = <<row>>,
            !.token = <<jwtSign(registerClaims(row), JWT_SECRET, <<TokenTTL>>)>>]

\* faulty variant: the catch block answers with the text of the exception
createUserFinishRaw(q, inserted, row) ==
    IF ~inserted \/ q.threw = "sign"
    THEN Respond(q, INTERNAL_SERVER_ERROR, q.threw)
    ELSE [Respond(q, CREATED, "") EXCEPT
            !.user = <<row>>,
            !.token = <<jwtSign(registerClaims(row), JWT_SECRET, <<TokenTTL>>)>>]
\* createUserController after registerUser returned or threw: sign and
\* answer 201, or the catch block's 500
createUserFinish(q, inserted, row) ==
    IF ~inserted \/ q.threw = "sign"
    THEN Respond(q, INTERNAL_SERVER_ERROR, "Could not create user")
    ELSE [Respond(q, CREATED, "") EXCEPT
            !.user = <<row>>,
            !.token = <<jwtSign(registerClaims(row), JWT_SECRET, <<TokenTTL>>)>>]

AliceBody == [username |-> "alice", email |-> "alice@example.com",
              password |-> "secret123", monthlyIncome |-> "3000"]

\* the complete bodies, and bodies with one field missing
RegisterBodies ==
    [username : Usernames, email : Emails, password : RegisterPasswords,
     monthlyIncome : Incomes]
    \cup {[AliceBody EXCEPT ![f] = Absent] : f \in DOMAIN AliceBody}

\* the request arrives; validateData; createUserController to its first
\* database answer
Register(r) ==
    /\ Arrives(r)
    /\ \E body \in RegisterBodies, fault \in Faults(r, {"parse", "select"}) :
         LET q0 == [IdleReq EXCEPT !.route = "register", !.body = body,
                                   !.threw = fault]
             q1 == validateData(q0, createUserSchema(body), fault = "parse")
         IN  reqs' = [reqs EXCEPT ![r] = IF q1.nextCalls = 0 THEN q1
                                         ELSE createUserCheck(q1)]
    /\ UNCHANGED <<users, now, expenses, held>>

\* createUserController after the existence check: hash, registerUser
\* (hash again, insert), sign, respond
RegisterInsert(r) ==
    /\ reqs[r].pc = "insert"
    /\ \E s1 \in Salts, s2 \in Salts, fault \in Faults(r, {"hash", "insert", "sign"}) :
         LET q == [reqs[r] EXCEPT !.threw = fault]
             b == q.body
             hashedPassword == bcryptHash(Plain(b.password), s1)
             newUser == [username |-> b.username, email |-> b.email,
                         password |-> hashedPassword,
                         monthlyIncome |-> b.monthlyIncome]
             row == registerUser(newUser, s2)
             inserted == fault \notin {"hash", "insert"} /\ usersTable(row)
         IN  /\ users' = IF inserted THEN insertUser(row) ELSE users
             /\ reqs' = [reqs EXCEPT ![r] = createUserFinish(q, inserted, row)]
    /\ UNCHANGED <<now, expenses, held>>

---------------------------------------------------------------------------
(* POST /login: validateData(loginUserSchema), loginUserController         *)

\* !user, for the array checkIfUserExistsWithUsername returns: an array is
\* truthy in JavaScript, also when it is empty
NotUser(user) == FALSE

\* faulty variant: the token names another user id
loginClaimsOtherId(user) ==
    [idKey |-> "userId", sub |-> user.id + 1, username |-> user.username]
loginClaims(user) == [idKey |-> "userId", sub |-> user.id, username |-> user.username]

loginUserController(q) ==
    LET b == q.body
        user == checkIfUserExistsWithUsername(b.username)
    IN  IF q.threw = "select"
        THEN Respond(q, INTERNAL_SERVER_ERROR, "Could not log in user")
        ELSE LET q1 == [q EXCEPT !.rows = user] IN
        IF NotUser(user)
        THEN Respond(q1, UNAUTHORIZED, "Invalid username or password")
        ELSE IF user = <<>>       \* user[0].password: TypeError, caught
        THEN Respond(q1, INTERNAL_SERVER_ERROR, "Could not log in user")
        ELSE IF q.threw = "compare"
        THEN Respond(q1, INTERNAL_SERVER_ERROR, "Could not log in user")
        ELSE IF ~bcryptCompare(Submitted(b.password), user[1].password)
        THEN Respond(q1, UNAUTHORIZED, "Invalid username or password")
        ELSE IF q.threw = "sign"
        THEN Respond(q1, INTERNAL_SERVER_ERROR, "Could not log in user")
        ELSE [Respond(q1, CREATED, "") EXCEPT
                !.user = user,
                !.token = <<jwtSign(loginClaims(user[1]), JWT_SECRET, <<>>)>>]

\* a username with a password; alice with the hash text as password; a
\* body without username; an empty body
LoginBodies ==
    {[NoBody EXCEPT !.username = u, !.password = p] :
        u \in Usernames, p \in LoginPasswords}
    \cup {[NoBody EXCEPT !.username = "alice", !.password = HashText]}
    \cup {[NoBody EXCEPT !.password = "secret123"], NoBody}

Login(r) ==
    /\ Arrives(r)
    /\ \E body \in LoginBodies,
          fault \in Faults(r, {"parse", "select", "compare", "sign"}) :
         LET q0 == [IdleReq EXCEPT !.route = "login", !.body = body,
                                   !.threw = fault]
             q1 == validateData(q0, loginUserSchema(body), fault = "parse")
         IN  reqs' = [reqs EXCEPT ![r] = IF q1.nextCalls = 0 THEN q1
                                         ELSE loginUserController(q1)]
    /\ UNCHANGED <<users, now, expenses, held>>

---------------------------------------------------------------------------
(* GET /me: isAuth, then the handler answers 200 with req.userId           *)

\* header.split(" ")[1]: the second word, undefined when there is none
SecondWord(header) == IF Len(header) >= 2 THEN <<header[2]>> ELSE <<>>

\* faulty variant: each place answers with a message of its own
isAuthRejectBySite(q, site) == Respond(q, UNAUTHORIZED, site)

\* faulty variant: the return after the 401 is missing: next() is called too
isAuthRejectNoReturn(q, site) ==
    [Respond(q, UNAUTHORIZED, "Not authenticated") EXCEPT !.nextCalls = @ + 1]

\* the three places where isAuth answers 401 and returns; site is
\* "header" (no Authorization header), "verify" (the catch block: no token
\* part, or jwt.verify threw) or "falsy" (jwt.verify returned nothing)
isAuthReject(q, site) == Respond(q, UNAUTHORIZED, "Not authenticated")

\* faulty variant: the route is registered without the gate in front
isAuthOpen(q) == [q EXCEPT !.nextCalls = @ + 1]
\* faulty variant: a token is accepted once; presenting it again is rejected
isAuthOnce(q) ==
    LET authHeader == q.header
        token == SecondWord(authHeader)
    IN  IF authHeader = NoHeader \/ authHeader = <<TextWord("")>>
        THEN isAuthReject(q, "header")
        ELSE IF token = <<>> \/ token = <<TextWord("")>>
        THEN isAuthReject(q, "verify")
        ELSE LET decodeToken == jwtVerify(token[1], JWT_SECRET) IN
        IF decodeToken.threw
           \/ \E p \in ReqIds : reqs[p].header = authHeader /\ reqs[p].userId # <<>>
        THEN isAuthReject(q, "verify")
        ELSE IF decodeToken.payload = <<>>
        THEN isAuthReject(q, "falsy")
        ELSE [q EXCEPT !.userId = decodeToken.payload, !.nextCalls = @ + 1]
isAuth(q) ==
    LET authHeader == q.header
        token == SecondWord(authHeader)
    IN  IF authHeader = NoHeader \/ authHeader = <<TextWord("")>>
        THEN isAuthReject(q, "header")
        ELSE IF token = <<>> \/ token = <<TextWord("")>>
        THEN isAuthReject(q, "verify")
        ELSE LET decodeToken == jwtVerify(token[1], JWT_SECRET) IN
        IF decodeToken.threw
        THEN isAuthReject(q, "verify")
        ELSE IF decodeToken.payload = <<>>
        THEN isAuthReject(q, "falsy")
        ELSE [q EXCEPT !.userId = decodeToken.payload, !.nextCalls = @ + 1]

\* the handler of GET /me
meHandler(q) == Respond(q, OK, "")

\* the tokens clients hold: those the responses so far carried, and those
\* of earlier registrations
ClientTokens ==
    held \cup UNION {{reqs[q].token[i] : i \in 1..Len(reqs[q].token)} : q \in ReqIds}

\* a token whose payload was changed after signing
Tamper(t) == [t EXCEPT !.payload.sub = @ + 1]
\* a token signed with a key that is not the server's
Forge(t) == [t EXCEPT !.sig = Mac(t.payload, OtherKey)]

Headers ==
    {NoHeader, <<TextWord("")>>, <<TextWord("Bearer")>>,
     <<TextWord("Bearer"), TextWord("")>>,
     <<TextWord("Bearer"), TextWord("garbage")>>}
    \cup UNION {{<<TextWord("Bearer"), JwtWord(t)>>,
                 <<TextWord("Basic"), JwtWord(t)>>,
                 <<JwtWord(t)>>,
                 <<TextWord("Bearer"), JwtWord(Tamper(t))>>,
                 <<TextWord("Bearer"), JwtWord(Forge(t))>>} : t \in ClientTokens}

Me(r) ==
    /\ Arrives(r)
    /\ \E header \in Headers :
         LET q0 == [IdleReq EXCEPT !.route = "me", !.header = header]
             q1 == isAuth(q0)
         IN  reqs' = [reqs EXCEPT ![r] = IF q1.nextCalls = 0 THEN q1
                                         ELSE meHandler(q1)]
    /\ UNCHANGED <<users, now, expenses, held>>

\* an hour passes
Tick ==
    /\ now < MaxTime
    /\ now' = now + 1
    /\ UNCHANGED <<users, reqs, expenses, held>>

Init ==
    /\ users = <<>>
    /\ reqs = [r \in ReqIds |-> IdleReq]
    /\ now = 0
    /\ expenses = <<>>
    /\ held = {}

Next ==
    \/ \E r \in ReqIds : Register(r)
    \/ \E r \in ReqIds : RegisterInsert(r)
    \/ \E r \in ReqIds : Login(r)
    \/ \E r \in ReqIds : Me(r)
    \/ Tick

Spec == Init /\ [][Next]_vars

\* requests one after the other: a request arrives only when every earlier
\* one has been answered
NoneInFlight == \A q \in ReqIds : reqs[q].pc # "insert"

NextSeq ==
    \/ \E r \in ReqIds : NoneInFlight /\ Register(r)
    \/ \E r \in ReqIds : RegisterInsert(r)
    \/ \E r \in ReqIds : NoneInFlight /\ Login(r)
    \/ \E r \in ReqIds : NoneInFlight /\ Me(r)
    \/ NoneInFlight /\ Tick

SpecSeq == Init /\ [][NextSeq]_vars

---------------------------------------------------------------------------
(* GET /users: isAuth, getUsersController *)

\* the headers sent to the routes below: none, a held token, a held token
\* re-signed with another key
GateHeaders ==
    {NoHeader}
    \cup UNION {{<<TextWord("Bearer"), JwtWord(t)>>,
                 <<TextWord("Bearer"), JwtWord(Forge(t))>>} : t \in ClientTokens}

getUsersController(q) ==
    IF q.threw = "select"
    THEN Respond(q, INTERNAL_SERVER_ERROR, "Could not fetch users")
    ELSE [Respond(q, OK, "") EXCEPT !.user = users]

GetUsers(r) ==
    /\ Arrives(r)
    /\ \E header \in GateHeaders, fault \in Faults(r, {"select"}) :
         LET q0 == [IdleReq EXCEPT !.route = "users", !.header = header,
                                   !.threw = fault]
             q1 == isAuth(q0)
         IN  reqs' = [reqs EXCEPT ![r] = IF q1.nextCalls = 0 THEN q1
                                         ELSE getUsersController(q1)]
    /\ UNCHANGED <<users, now, expenses, held>>

---------------------------------------------------------------------------
(* The expense routes.  An expense row is its id, its owner (user_id) and  *)
(* its amount; category, description and date are taken as well-formed.    *)
(* The id the database draws for a row is the number of the request that   *)
(* inserts it.                                                             *)

ExpenseIds == ReqIds
\* the user ids a body names: 0 for a userId that is absent or not a
\* uuid, the stored ones, one that is not stored
BodyUserIds == 0..3
ExpenseBodies ==
    {[userId |-> u, amount |-> 5] : u \in BodyUserIds \ {0}}
    \cup {[userId |-> 0, amount |-> 0], [userId |-> 1, amount |-> 0]}

\* createExpenseSchema: userId is a uuid, amount is a positive number
createExpenseSchema(body) ==
    LET bad == SelectSeq(<<"userId", "amount">>,
                         LAMBDA f : IF f = "userId" THEN body.userId < 1
                                    ELSE body.amount <= 0)
    IN  [i \in 1..Len(bad) |-> ZodIssue(bad[i])]

\* expensesTable: user_id references users.id
expensesTable(row) == \E i \in 1..Len(users) : users[i].id = row.userId

\* the headers sent to the routes that do not read them
OpenHeaders ==
    {NoHeader} \cup {<<TextWord("Bearer"), JwtWord(t)>> : t \in ClientTokens}

getExpensesFromDB == expenses

getExpenseWithIdFromDB(id) == SelectSeq(expenses, LAMBDA e : e.id = id)

getExpenses(q) ==
    IF q.threw = "select"
    THEN Respond(q, INTERNAL_SERVER_ERROR, "Could not fetch expenses")
    ELSE [Respond(q, OK, "") EXCEPT !.expenses = getExpensesFromDB]

getExpense(q) ==
    IF q.threw = "select"
    THEN Respond(q, INTERNAL_SERVER_ERROR, "Could not fetch expense")
    ELSE [Respond(q, OK, "") EXCEPT !.expenses = getExpenseWithIdFromDB(q.param)]

GetExpenses(r) ==
    /\ Arrives(r)
    /\ \E header \in GateHeaders, fault \in Faults(r, {"select"}) :
         LET q0 == [IdleReq EXCEPT !.route = "getExpenses", !.header = header,
                                   !.threw = fault]
             q1 == isAuth(q0)
         IN  reqs' = [reqs EXCEPT ![r] = IF q1.nextCalls = 0 THEN q1
                                         ELSE getExpenses(q1)]
    /\ UNCHANGED <<users, now, expenses, held>>

GetExpense(r) ==
    /\ Arrives(r)
    /\ \E header \in GateHeaders, id \in ExpenseIds,
          fault \in Faults(r, {"select"}) :
         LET q0 == [IdleReq EXCEPT !.route = "getExpense", !.header = header,
                                   !.param = id, !.threw = fault]
             q1 == isAuth(q0)
         IN  reqs' = [reqs EXCEPT ![r] = IF q1.nextCalls = 0 THEN q1
                                         ELSE getExpense(q1)]
    /\ UNCHANGED <<users, now, expenses, held>>

\* createExpenseInDB: the row handed to the insert, { ...expenseReq, date }
createExpenseInDB(id, expenseReq) ==
    [id |-> id, userId |-> expenseReq.userId, amount |-> expenseReq.amount]

createExpense(q, inserted, row) ==
    IF ~inserted
    THEN Respond(q, INTERNAL_SERVER_ERROR, "Could not create expense")
    ELSE [Respond(q, CREATED, "") EXCEPT !.expenses = <<row>>]

CreateExpense(r) ==
    /\ Arrives(r)
    /\ \E header \in OpenHeaders, body \in ExpenseBodies,
          fault \in Faults(r, {"parse", "insert"}) :
         LET q0 == [IdleReq EXCEPT !.route = "createExpense", !.header = header,
                                   !.expense = body, !.threw = fault]
             q1 == validateData(q0, createExpenseSchema(body), fault = "parse")
             row == createExpenseInDB(r, body)
             inserted == /\ q1.nextCalls = 1 /\ fault # "insert"
                         /\ expensesTable(row)
         IN  /\ expenses' = IF inserted THEN Append(expenses, row) ELSE expenses
             /\ reqs' = [reqs EXCEPT ![r] = IF q1.nextCalls = 0 THEN q1
                                            ELSE createExpense(q1, inserted, row)]
    /\ UNCHANGED <<users, now, held>>

deleteExpense(q) ==
    IF q.threw = "delete"
    THEN Respond(q, INTERNAL_SERVER_ERROR, "Could not delete expense")
    ELSE Respond(q, NO_CONTENT, "")

DeleteExpense(r) ==
    /\ Arrives(r)
    /\ \E header \in OpenHeaders, id \in ExpenseIds,
          fault \in Faults(r, {"delete"}) :
         LET q0 == [IdleReq EXCEPT !.route = "deleteExpense", !.header = header,
                                   !.param = id, !.threw = fault]
         IN  /\ expenses' = IF fault = "delete" THEN expenses
                            ELSE SelectSeq(expenses, LAMBDA e : e.id # id)
             /\ reqs' = [reqs EXCEPT ![r] = deleteExpense(q0)]
    /\ UNCHANGED <<users, now, held>>

---------------------------------------------------------------------------
(* errorHandler and the not-found handler behind it.  An error reaches     *)
(* errorHandler when a middleware in front of the routers passes one on:   *)
(* bodyParser.json() for a body that is no JSON.                           *)

NodeEnvs == {"production", "development", Absent}

SyntaxError == [message |-> "Unexpected token", stack |-> "SyntaxError: at JSON.parse"]
OtherError == [message |-> "boom", stack |-> "Error: boom at handler"]

\* faulty variant: the status already on the response is kept as it is
errorHandlerKeep(q, err, nodeEnv) ==
    [Respond(q, q.statusCode, err.message) EXCEPT
        !.stack = IF nodeEnv = "production" THEN <<>> ELSE <<err.stack>>,
        !.nodeEnv = nodeEnv,
        !.nextCalls = @ + 1]
\* the response of errorHandler, then its call of next()
errorHandler(q, err, nodeEnv) ==
    LET statusCode == IF q.statusCode = OK THEN INTERNAL_SERVER_ERROR
                      ELSE q.statusCode
    IN  [Respond(q, statusCode, err.message) EXCEPT
            !.stack = IF nodeEnv = "production" THEN <<>> ELSE <<err.stack>>,
            !.nodeEnv = nodeEnv,
            !.nextCalls = @ + 1]

\* app.use((_, res) => res.status(404).send("Not found")): once a response
\* was sent, send throws and nothing more reaches the client
notFound(q) ==
    IF q.responses > 0 THEN [q EXCEPT !.responses = @ + 1]
    ELSE Respond(q, NOT_FOUND, "Not found")

\* a request whose body bodyParser.json() cannot parse
BadJson(r) ==
    /\ Arrives(r)
    /\ \E nodeEnv \in NodeEnvs :
         LET q0 == [IdleReq EXCEPT !.route = "badJson"]
             q1 == errorHandler(q0, SyntaxError, nodeEnv)
         IN  reqs' = [reqs EXCEPT ![r] = IF q1.nextCalls = 0 THEN q1
                                         ELSE notFound(q1)]
    /\ UNCHANGED <<users, now, expenses, held>>

---------------------------------------------------------------------------
(* The API on a database that earlier registrations filled: alice and bob  *)
(* registered in the hour the run starts in, and alice's client holds the  *)
(* token her registration returned.                                        *)

SeedUser(id, username, email) ==
    [id |-> id, username |-> username, email |-> email,
     password |-> bcryptHash(bcryptHash(Plain("secret123"), 1), 1),
     monthlyIncome |-> "3000"]

SeedUsers ==
    <<SeedUser(1, "alice", "alice@example.com"), SeedUser(2, "bob", "bob@example.com")>>

InitData ==
    /\ now = 0
    /\ users = SeedUsers
    /\ reqs = [r \in ReqIds |-> IdleReq]
    /\ expenses = <<>>
    /\ held = {jwtSign(registerClaims(SeedUsers[1]), JWT_SECRET, <<TokenTTL>>)}

NextData ==
    \/ \E r \in ReqIds : GetUsers(r)
    \/ \E r \in ReqIds : GetExpenses(r)
    \/ \E r \in ReqIds : GetExpense(r)
    \/ \E r \in ReqIds : CreateExpense(r)
    \/ \E r \in ReqIds : DeleteExpense(r)
    \/ \E r \in ReqIds : BadJson(r)
    \/ Tick

SpecData == InitData /\ [][NextData]_vars

---------------------------------------------------------------------------
(* errorHandler as a function of the status on the response, the error     *)
(* and NODE_ENV                                                            *)

StatusCodes == {OK, CREATED, BAD_REQUEST, NOT_FOUND, INTERNAL_SERVER_ERROR}

OnError(r) ==
    /\ Arrives(r)
    /\ \E statusCode \in StatusCodes, nodeEnv \in NodeEnvs,
          err \in {SyntaxError, OtherError} :
         LET q0 == [IdleReq EXCEPT !.route = "onError", !.statusCode = statusCode]
         IN  reqs' = [reqs EXCEPT ![r] = errorHandler(q0, err, nodeEnv)]
    /\ UNCHANGED <<users, now, expenses, held>>

NextErr == \E r \in ReqIds : OnError(r)

SpecErr == Init /\ [][NextErr]_vars

---------------------------------------------------------------------------
(* Every route of the API together, on a database in which alice is        *)
(* registered and her client holds her token.  The requests are a sample   *)
(* of those the single routes are checked with above.                      *)

InitAlice ==
    /\ now = 0
    /\ users = <<SeedUsers[1]>>
    /\ reqs = [r \in ReqIds |-> IdleReq]
    /\ expenses = <<>>
    /\ held = {jwtSign(registerClaims(SeedUsers[1]), JWT_SECRET, <<TokenTTL>>)}

SampleBodies ==
    {NoBody, AliceBody, [AliceBody EXCEPT !.email = Absent],
     [AliceBody EXCEPT !.username = "bob", !.email = "bob@example.com"],
     [NoBody EXCEPT !.username = "alice", !.password = HashText],
     [NoBody EXCEPT !.username = "alice", !.password = "wrong"]}

Sampled(q) ==
    /\ q.body \in SampleBodies /\ q.header \in GateHeaders
    /\ q.expense.userId <= 2 /\ q.param <= 1

NextAll ==
    \/ \E r \in ReqIds : Register(r) /\ Sampled(reqs'[r])
    \/ \E r \in ReqIds : RegisterInsert(r)
    \/ \E r \in ReqIds : Login(r) /\ Sampled(reqs'[r])
    \/ \E r \in ReqIds : Me(r) /\ Sampled(reqs'[r])
    \/ \E r \in ReqIds : GetUsers(r) /\ Sampled(reqs'[r])
    \/ \E r \in ReqIds : GetExpenses(r) /\ Sampled(reqs'[r])
    \/ \E r \in ReqIds : GetExpense(r) /\ Sampled(reqs'[r])
    \/ \E r \in ReqIds : CreateExpense(r) /\ Sampled(reqs'[r])
    \/ \E r \in ReqIds : DeleteExpense(r) /\ Sampled(reqs'[r])
    \/ \E r \in ReqIds : BadJson(r)
    \/ Tick

SpecAll == InitAlice /\ [][NextAll]_vars
---------------------------------------------------------------------------
(* Vocabulary of the properties *)

IsRegister(r) == reqs[r].route = "register"
IsLogin(r) == reqs[r].route = "login"
IsMe(r) == reqs[r].route = "me"
Done(r) == reqs[r].pc = "done"

\* what the Auth Gate does with a request that presents token t as
\* Authorization: Bearer <t>
GateAccepts(t) ==
    isAuth([IdleReq EXCEPT !.route = "me",
                           !.header = <<TextWord("Bearer"), JwtWord(t)>>]).nextCalls = 1

\* login request l looked up the row that registration q created, and
\* submits the username and password q registered
LogsInAs(l, q) ==
    /\ IsRegister(q) /\ Done(q) /\ reqs[q].status = CREATED
    /\ IsLogin(l) /\ Done(l) /\ reqs[l].threw = ""
    /\ reqs[l].rows = reqs[q].user
    /\ reqs[l].body.username = reqs[q].body.username
    /\ reqs[l].body.password = reqs[q].body.password

\* C1: after POST /register (u, e, p, m) was answered 201, a following
\* POST /login (u, p) succeeds: the password check passes and the response
\* carries a token the Auth Gate accepts.
C1_RegisterThenLogin ==
    \A l \in ReqIds, q \in ReqIds :
        LogsInAs(l, q) =>
            /\ reqs[l].status \in {OK, CREATED}
            /\ reqs[l].token # <<>>
            /\ GateAccepts(reqs[l].token[1])

\* a login that passed validation and in which no call threw
PlainLogin(l) ==
    IsLogin(l) /\ Done(l) /\ reqs[l].nextCalls = 1 /\ reqs[l].threw = ""

\* its username matches no stored user
UnknownUser(l) == PlainLogin(l) /\ reqs[l].rows = <<>>

\* its username matches a stored user whose password is another one
WrongPassword(l) ==
    /\ PlainLogin(l) /\ reqs[l].rows # <<>>
    /\ reqs[l].rows[1].password.plain # reqs[l].body.password

\* C2: a login with a username that matches no stored user and a login
\* with an existing username and a wrong password get the same status
\* code, 401, and the same error message.
C2_LoginFailuresAlike ==
    \A a \in ReqIds, b \in ReqIds :
        (UnknownUser(a) \/ WrongPassword(a)) /\ (UnknownUser(b) \/ WrongPassword(b))
        => /\ reqs[a].status = UNAUTHORIZED
           /\ reqs[b].status = UNAUTHORIZED
           /\ reqs[a].error = reqs[b].error

\* rows of the users table with username u
WithUsername(u) == {i \in 1..Len(users) : users[i].username = u}

\* register request q carries all four fields and none of its calls threw
CompleteRegister(q) ==
    /\ q.route = "register" /\ q.threw = ""
    /\ \A i \in 1..Len(FieldNames) : q.body[FieldNames[i]] # Absent

\* q arrives while a stored user has its username
UsernameTaken(q) ==
    CompleteRegister(q) /\ WithUsername(q.body.username) # {}

\* C3: with requests handled one after the other, a POST /register (a
\* complete body, the database answering) whose username is that of an
\* already stored user is answered 409 "User already exists", and the
\* number of stored users with that username stays exactly one.
C3_DuplicateUsername ==
    [][\A r \in ReqIds :
         (reqs[r].pc = "idle" /\ UsernameTaken(reqs'[r])) =>
            /\ reqs'[r].pc = "done"
            /\ reqs'[r].status = CONFLICT
            /\ reqs'[r].error = "User already exists"
            /\ users' = users
            /\ Cardinality(WithUsername(reqs'[r].body.username)) = 1]_vars

C3_Witness ==
    \E r \in ReqIds :
        /\ CompleteRegister(reqs[r]) /\ reqs[r].status = CONFLICT
        /\ \E i \in 1..Len(reqs[r].rows) :
              reqs[r].rows[i].username = reqs[r].body.username

\* q arrives while a stored user has its email and none has its username
EmailTakenOnly(q) ==
    /\ CompleteRegister(q) /\ WithUsername(q.body.username) = {}
    /\ \E i \in 1..Len(users) : users[i].email = q.body.email

\* C4: a POST /register (a complete body, the database answering) whose
\* email is that of an already stored user, with a username no stored user
\* has, is answered 409 and creates no user.
C4_DuplicateEmail ==
    [][\A r \in ReqIds :
         (reqs[r].pc = "idle" /\ EmailTakenOnly(reqs'[r])) =>
            /\ reqs'[r].pc = "done"
            /\ reqs'[r].status = CONFLICT
            /\ reqs'[r].user = <<>>
            /\ users' = users]_vars

C4_Witness ==
    \E r \in ReqIds :
        /\ CompleteRegister(reqs[r]) /\ reqs[r].status = CONFLICT
        /\ reqs[r].rows # <<>>
        /\ \A i \in 1..Len(reqs[r].rows) :
              /\ reqs[r].rows[i].email = reqs[r].body.email
              /\ reqs[r].rows[i].username # reqs[r].body.username

\* C5: under every interleaving of concurrent POST /register requests the
\* users table never holds two rows with the same username nor two rows
\* with the same email.
C5_UniqueUsers ==
    \A i \in 1..Len(users), j \in 1..Len(users) :
        i # j => /\ users[i].username # users[j].username
                 /\ users[i].email # users[j].email

\* register request r passed the existence check (it found no row)
PassedCheck(r) ==
    /\ IsRegister(r) /\ reqs[r].nextCalls = 1
    /\ reqs[r].pc = "insert"
       \/ (Done(r) /\ reqs[r].status \notin {BAD_REQUEST, CONFLICT}
                   /\ reqs[r].threw # "select")

Collide(a, b) ==
    \/ reqs[a].body.username = reqs[b].body.username
    \/ reqs[a].body.email = reqs[b].body.email

\* a request that passed the check and whose insert the table rejected
C5_Witness ==
    \E r \in ReqIds :
        /\ PassedCheck(r) /\ Done(r) /\ reqs[r].threw = ""
        /\ reqs[r].status = INTERNAL_SERVER_ERROR
        /\ \E i \in 1..Len(users) :
              \/ users[i].username = reqs[r].body.username
              \/ users[i].email = reqs[r].body.email

\* C6: when two concurrent POST /register requests for the same username
\* or email both pass the existence check, at most one is answered 201; the
\* other is answered 409 or 500, never 201, and is never left without a
\* response.
C6_RaceLoserAnswered ==
    \A a \in ReqIds, b \in ReqIds :
        (a # b /\ PassedCheck(a) /\ PassedCheck(b) /\ Collide(a, b)) =>
            /\ ~(reqs[a].status = CREATED /\ reqs[b].status = CREATED)
            /\ Done(b) => /\ reqs[b].responses = 1
                          /\ reqs[b].status \in {CREATED, CONFLICT, INTERNAL_SERVER_ERROR}
            /\ ~Done(b) => ENABLED RegisterInsert(b)

C6_Witness ==
    \E a \in ReqIds, b \in ReqIds :
        /\ a # b /\ PassedCheck(a) /\ PassedCheck(b) /\ Collide(a, b)
        /\ reqs[a].status = CREATED
        /\ Done(b) /\ reqs[b].threw = ""
        /\ reqs[b].status = INTERNAL_SERVER_ERROR

\* the token a header carries after its first word, if that is a JWT
Carried(h) == IF Len(h) >= 2 THEN h[2].tok ELSE <<>>

ValidlySigned(t) == t.sig = Mac(t.payload, JWT_SECRET)
Expired(t) == t.payload.exp # <<>> /\ now >= t.payload.exp[1]

\* no Authorization header, no token part, an unparseable token, a token
\* whose signature does not match, an expired token
BadCredentials(h) ==
    \/ h = NoHeader
    \/ Len(h) < 2
    \/ Carried(h) = <<>>
    \/ ~ValidlySigned(Carried(h)[1])
    \/ Expired(Carried(h)[1])

\* the one response of the Auth Gate to a request it rejects
Rejection(h) ==
    [IdleReq EXCEPT !.route = "me", !.header = h, !.pc = "done",
                    !.status = UNAUTHORIZED, !.error = "Not authenticated",
                    !.responses = 1]

\* C7: a request to a route guarded by isAuth is rejected with the same
\* response, status 401 and error "Not authenticated", when it has no
\* Authorization header, a header with no token part, a token with an
\* invalid signature or unparseable content, or an expired token.
C7_SameRejection ==
    [][\A r \in ReqIds :
         (reqs[r].pc = "idle" /\ reqs'[r].route = "me"
          /\ BadCredentials(reqs'[r].header)) =>
            reqs'[r] = Rejection(reqs'[r].header)]_vars

\* a rejected request whose token the server signed: it had expired
C7_Witness ==
    \E r \in ReqIds :
        /\ IsMe(r) /\ reqs[r].status = UNAUTHORIZED
        /\ Len(reqs[r].header) = 2
        /\ reqs[r].header[1] = TextWord("Bearer")
        /\ Carried(reqs[r].header) # <<>>
        /\ ValidlySigned(Carried(reqs[r].header)[1])

\* C8: on a route guarded by isAuth the handler runs only after the token
\* of the same request was verified: when isAuth answers 401 it does not
\* call next(), and it calls next() at most once per request.
C8_GateBeforeHandler ==
    \A r \in ReqIds :
        IsMe(r) =>
            /\ reqs[r].nextCalls <= 1
            /\ reqs[r].responses = 1
            /\ reqs[r].status = UNAUTHORIZED =>
                  reqs[r].nextCalls = 0 /\ reqs[r].userId = <<>>
            /\ reqs[r].status # UNAUTHORIZED =>
                  /\ reqs[r].status = OK /\ reqs[r].nextCalls = 1
                  /\ Carried(reqs[r].header) # <<>>
                  /\ ValidlySigned(Carried(reqs[r].header)[1])
                  /\ reqs[r].userId = <<Carried(reqs[r].header)[1].payload>>

C8_Witness ==
    \E r \in ReqIds :
        /\ IsMe(r) /\ reqs[r].status = UNAUTHORIZED /\ reqs[r].nextCalls = 0
        /\ Carried(reqs[r].header) # <<>>
        /\ ~ValidlySigned(Carried(reqs[r].header)[1])

\* C9: isAuth rejects a request whose Authorization header is not the
\* scheme Bearer followed by the token: with any other first word, also
\* when a validly signed, unexpired token follows, the answer is 401 and
\* the handler is not reached.
C9_OnlyBearer ==
    \A r \in ReqIds :
        (IsMe(r) /\ reqs[r].header # NoHeader
         /\ reqs[r].header[1] # TextWord("Bearer")) =>
            reqs[r].status = UNAUTHORIZED /\ reqs[r].nextCalls = 0

\* Authorization: Bearer <t>, t signed by the server and not expired
CarriesValid(h) ==
    /\ Len(h) = 2 /\ h[1] = TextWord("Bearer") /\ Carried(h) # <<>>
    /\ ValidlySigned(Carried(h)[1]) /\ ~Expired(Carried(h)[1])

\* the response of request q issued token t for the user it returned
IssuedBy(q, t) == reqs[q].token = <<t>> /\ reqs[q].user # <<>>

---------------------------------------------------------------------------
\* the field names of a response's user object that carry a password
PasswordFields == {"password", "hashedPassword", "passwordHash"}

\* C15: the 201 response of POST /register holds the created user and a
\* non-empty token, and the user object in it has no password or
\* password-hash field.
C15_RegisterResponseNoHash ==
    \A r \in ReqIds :
        (IsRegister(r) /\ Done(r) /\ reqs[r].status = CREATED) =>
            /\ Len(reqs[r].user) = 1
            /\ reqs[r].token # <<>>
            /\ DOMAIN reqs[r].user[1] \cap PasswordFields = {}

\* registration q created row i and returned it
RegisteredBy(q, i) ==
    /\ IsRegister(q) /\ Done(q) /\ reqs[q].user = <<users[i]>>

\* C17: in every reachable state of the users table, the password field of
\* every stored user is an output of the password hasher (at least one
\* salted layer), and is never the plaintext submitted at registration.
C17_StoredPasswordHashed ==
    \A i \in 1..Len(users) :
        /\ Len(users[i].password.salts) >= 1
        /\ \A q \in ReqIds :
             RegisteredBy(q, i) => users[i].password # Plain(reqs[q].body.password)
        /\ \A p \in RegisterPasswords : users[i].password # Plain(p)

C17_Witness ==
    \E q \in ReqIds : \E i \in 1..Len(users) :
        /\ RegisteredBy(q, i) /\ reqs[q].status = CREATED
        /\ users[i].password.plain = reqs[q].body.password

\* C16: the success response of POST /login holds user info and a token,
\* and the user info in it has no password or password-hash field.
C16_LoginResponseNoHash ==
    \A r \in ReqIds :
        (IsLogin(r) /\ Done(r) /\ reqs[r].status \in {OK, CREATED}) =>
            /\ reqs[r].user # <<>>
            /\ reqs[r].token # <<>>
            /\ \A i \in 1..Len(reqs[r].user) :
                  DOMAIN reqs[r].user[i] \cap PasswordFields = {}

---------------------------------------------------------------------------
\* the fields the schema in front of request q's route requires
Required(q) ==
    IF q.route = "register" THEN {"username", "email", "password", "monthlyIncome"}
    ELSE IF q.route = "login" THEN {"username", "password"}
    ELSE {}

\* the fields of q's body that violate the schema of its route
Violations(q) == {f \in Required(q) : q.body[f] = Absent}

\* q went through validateData and schema.parse threw nothing but, at
\* most, a ZodError
Validated(q) == q.route \in {"register", "login"} /\ q.threw # "parse"

\* C18: validateData, when the request body violates the schema, answers
\* 400 with error "Invalid data" and a details list holding one entry per
\* violation, does not call next(), and the guarded handler makes no change
\* to any store.
C18_InvalidBodyRejected ==
    [][\A r \in ReqIds :
         (reqs[r].pc = "idle" /\ Validated(reqs'[r])
          /\ Violations(reqs'[r]) # {}) =>
            /\ reqs'[r].pc = "done"
            /\ reqs'[r].status = BAD_REQUEST
            /\ reqs'[r].error = "Invalid data"
            /\ reqs'[r].responses = 1
            /\ Len(reqs'[r].details) = Cardinality(Violations(reqs'[r]))
            /\ \A f \in Violations(reqs'[r]) :
                  \E i \in 1..Len(reqs'[r].details) :
                      reqs'[r].details[i].message[1] = <<f>>
            /\ reqs'[r].nextCalls = 0
            /\ users' = users /\ expenses' = expenses]_vars

\* a rejected body with two violations
C18_Witness ==
    \E r \in ReqIds :
        /\ Validated(reqs[r]) /\ Done(r)
        /\ Cardinality(Violations(reqs[r])) = 2
        /\ reqs[r].status = BAD_REQUEST /\ Len(reqs[r].details) = 2

\* C19: validateData answers an exception of parse that is not a
\* schema-validation error with 500 "Internal Server Error", never 400,
\* and does not call next(); for a body that satisfies the schema it
\* sends no response and calls next() exactly once.
C19_ValidatorOtherOutcomes ==
    \A r \in ReqIds :
        /\ (reqs[r].route \in {"register", "login"} /\ reqs[r].threw = "parse") =>
              /\ Done(r) /\ reqs[r].status = INTERNAL_SERVER_ERROR
              /\ reqs[r].error = "Internal Server Error"
              /\ reqs[r].responses = 1 /\ reqs[r].nextCalls = 0
        /\ (Validated(reqs[r]) /\ Violations(reqs[r]) = {}) =>
              /\ reqs[r].nextCalls = 1
              /\ reqs[r].details = <<>>
              /\ reqs[r].error \notin {"Invalid data", "Internal Server Error"}
              /\ reqs[r].pc = "insert" => reqs[r].responses = 0
              /\ Done(r) => reqs[r].responses = 1

\* parse threw for one request, and another with a valid body is in its
\* handler, unanswered
C19_Witness ==
    \E a \in ReqIds, b \in ReqIds :
        /\ reqs[a].threw = "parse" /\ reqs[a].status = INTERNAL_SERVER_ERROR
        /\ Validated(reqs[b]) /\ reqs[b].pc = "insert" /\ reqs[b].nextCalls = 1

\* C20: a POST /register request in which any of username, email, password
\* or monthlyIncome is missing is answered 400 and creates no user.
C20_MissingFieldRejected ==
    [][\A r \in ReqIds :
         (reqs[r].pc = "idle" /\ Validated(reqs'[r])
          /\ reqs'[r].route = "register"
          /\ \E i \in 1..Len(FieldNames) : reqs'[r].body[FieldNames[i]] = Absent) =>
            /\ reqs'[r].pc = "done"
            /\ reqs'[r].status = BAD_REQUEST
            /\ reqs'[r].user = <<>> /\ reqs'[r].token = <<>>
            /\ users' = users]_vars

\* two rejected registrations that miss different fields, no user stored
C20_Witness ==
    \E f \in {"username", "password"} :
        \E a \in ReqIds, b \in ReqIds :
            /\ IsRegister(a) /\ reqs[a].body[f] = Absent /\ reqs[a].status = BAD_REQUEST
            /\ IsRegister(b) /\ reqs[b].body.monthlyIncome = Absent
            /\ reqs[b].body.email # Absent /\ reqs[b].status = BAD_REQUEST
            /\ users = <<>>

---------------------------------------------------------------------------
ExpenseRoutes == {"getExpenses", "getExpense", "createExpense", "deleteExpense"}

\* the user a request authenticates as: the subject of the valid token
\* its Authorization header carries
Caller(h) == Carried(h)[1].payload.sub

\* C11: every expense route (GET /expenses, POST /expenses,
\* GET /expenses/:id, DELETE /expenses/:id) sits behind the Auth Gate: a
\* request without a valid token is answered 401 on each of them and
\* neither reads nor changes the expense store.
C11_ExpenseRoutesGated ==
    [][\A r \in ReqIds :
         (reqs[r].pc = "idle" /\ reqs'[r].route \in ExpenseRoutes
          /\ BadCredentials(reqs'[r].header)) =>
            /\ reqs'[r].status = UNAUTHORIZED
            /\ reqs'[r].expenses = <<>>
            /\ expenses' = expenses]_vars

\* C12: expense reads are scoped by the authenticated user's id: for any
\* stored expenses and any authenticated user A, GET /expenses returns
\* exactly the expenses whose owning user id is A's id, and
\* GET /expenses/:id returns an expense only when its owner is A.
C12_ReadsScoped ==
    [][\A r \in ReqIds :
         (reqs[r].pc = "idle" /\ reqs'[r].threw = ""
          /\ CarriesValid(reqs'[r].header)) =>
            LET A == Caller(reqs'[r].header) IN
            /\ reqs'[r].route = "getExpenses" =>
                  reqs'[r].expenses = SelectSeq(expenses, LAMBDA e : e.userId = A)
            /\ reqs'[r].route = "getExpense" =>
                  \A i \in 1..Len(reqs'[r].expenses) :
                      reqs'[r].expenses[i].userId = A]_vars

\* C13: expense writes are scoped by the authenticated user's id:
\* POST /expenses stores the new expense with the caller's user id as
\* owner (not a user id chosen in the request body), and
\* DELETE /expenses/:id removes an expense only when the caller owns it.
C13_WritesScoped ==
    [][\A r \in ReqIds :
         (reqs[r].pc = "idle" /\ CarriesValid(reqs'[r].header)) =>
            LET A == Caller(reqs'[r].header) IN
            /\ (reqs'[r].route = "createExpense" /\ reqs'[r].status = CREATED) =>
                  /\ Len(expenses') = Len(expenses) + 1
                  /\ expenses'[Len(expenses')].userId = A
            /\ reqs'[r].route = "deleteExpense" =>
                  \A i \in 1..Len(expenses) :
                      (\A j \in 1..Len(expenses') : expenses'[j] # expenses[i]) =>
                          expenses[i].userId = A]_vars

\* the one response of the Auth Gate in front of GET /users
UsersRejection(h) ==
    [IdleReq EXCEPT !.route = "users", !.header = h, !.pc = "done",
                    !.status = UNAUTHORIZED, !.error = "Not authenticated",
                    !.responses = 1]

\* C14: GET /users requires authentication: a request without a valid
\* token is answered 401 and returns no user record.
C14_UsersGated ==
    [][\A r \in ReqIds :
         (reqs[r].pc = "idle" /\ reqs'[r].route = "users"
          /\ BadCredentials(reqs'[r].header)) =>
            /\ reqs'[r].status = UNAUTHORIZED
            /\ reqs'[r].user = <<>>
            /\ reqs'[r].nextCalls = 0
            /\ reqs'[r] = [UsersRejection(reqs'[r].header) EXCEPT
                              !.threw = reqs'[r].threw]]_vars

\* users are stored; one request was rejected with a forged token, one
\* with the token the server signed, after it expired
C14_Witness ==
    \E a \in ReqIds, b \in ReqIds :
        /\ Len(users) > 0
        /\ reqs[a].route = "users" /\ reqs[a].status = UNAUTHORIZED
        /\ Carried(reqs[a].header) # <<>>
        /\ ~ValidlySigned(Carried(reqs[a].header)[1])
        /\ reqs[b].route = "users" /\ reqs[b].status = UNAUTHORIZED
        /\ Carried(reqs[b].header) # <<>>
        /\ ValidlySigned(Carried(reqs[b].header)[1])

---------------------------------------------------------------------------
\* the tokens the responses of register and login carried
IssuedTokens ==
    UNION {{reqs[q].token[i] : i \in 1..Len(reqs[q].token)} : q \in ReqIds}

\* C21: every token issued by the system, at registration and at login
\* alike, carries a bounded expiry (one hour after it was issued), and the
\* Auth Gate rejects it at any time after that expiry.
C21_TokensExpire ==
    \A t \in IssuedTokens :
        /\ t.payload.exp = <<t.payload.iat + TokenTTL>>
        /\ now >= t.payload.iat + TokenTTL => ~GateAccepts(t)

\* the call that threw in request r was reached: the exception was raised
Raised(r) ==
    LET q == reqs[r] IN
    \/ /\ q.route = "register" /\ q.nextCalls = 1
       /\ q.threw \in {"select", "hash", "insert", "sign"}
       /\ q.threw = "select" \/ q.pc = "done"
    \/ /\ q.route = "login" /\ q.nextCalls = 1
       /\ \/ q.threw = "select"
          \/ q.threw = "compare" /\ q.rows # <<>>
          \/ /\ q.threw = "sign" /\ q.rows # <<>>
             /\ bcryptCompare(Submitted(q.body.password), q.rows[1].password)

\* the one message of the catch block of the route's controller
GenericMessage(route) ==
    IF route = "register" THEN "Could not create user" ELSE "Could not log in user"

\* C23: in the register and login flows every storage, hashing or
\* token-signing exception is caught inside the flow and answered with
\* status 500 and a fixed generic message that does not depend on the
\* exception; it is never answered 401 or 409 and the raw exception text
\* never reaches the client.
C23_ExceptionsAnswered500 ==
    \A r \in ReqIds :
        Raised(r) =>
            /\ Done(r) /\ reqs[r].responses = 1
            /\ reqs[r].status = INTERNAL_SERVER_ERROR
            /\ reqs[r].error = GenericMessage(reqs[r].route)
            /\ reqs[r].user = <<>> /\ reqs[r].token = <<>>

\* the password comparison threw in the login of a registered user
C23_Witness ==
    \E b \in ReqIds :
        /\ Raised(b) /\ IsLogin(b) /\ reqs[b].threw = "compare"
        /\ reqs[b].status = INTERNAL_SERVER_ERROR
        /\ reqs[b].error = "Could not log in user"

\* C25: a POST /register answered 400 (validation failure) or 409
\* (conflict) leaves the user store exactly as it was before the request
\* and issues no token.
C25_RejectedRegisterNoEffect ==
    [][\A r \in ReqIds :
         (reqs[r].pc = "idle" /\ reqs'[r].route = "register"
          /\ reqs'[r].status \in {BAD_REQUEST, CONFLICT}) =>
            /\ reqs'[r].pc = "done" /\ reqs'[r].responses = 1
            /\ reqs'[r].token = <<>> /\ reqs'[r].user = <<>>
            /\ users' = users]_vars

\* a registration answered 409 after the one that created the stored user
C25_Witness ==
    \E a \in ReqIds, b \in ReqIds :
        /\ IsRegister(a) /\ Done(a) /\ reqs[a].status = CONFLICT
        /\ IsRegister(b) /\ Done(b) /\ reqs[b].status = CREATED
        /\ Len(users) = 1 /\ users[1] = reqs[b].user[1]
        /\ reqs[a].token = <<>>

\* C26: registration is all-or-nothing towards the client: whenever
\* POST /register is answered 500, no user row was created by that request.
C26_Error500NoUser ==
    [][\A r \in ReqIds :
         (reqs'[r].route = "register" /\ reqs[r].pc # "done"
          /\ reqs'[r].pc = "done"
          /\ reqs'[r].status = INTERNAL_SERVER_ERROR) =>
            users' = users]_vars

\* C27: a token is issued only after the user it names is in the store: in
\* every reachable state, each token issued by register or login carries
\* the id and username of a user row that exists in the user store.
C27_TokenNamesStoredUser ==
    \A q \in ReqIds : \A k \in 1..Len(reqs[q].token) :
        LET p == reqs[q].token[k].payload IN
        /\ \E i \in 1..Len(users) :
              users[i].id = p.sub /\ users[i].username = p.username
        /\ p.idKey = IF IsLogin(q) THEN "userId" ELSE "id"

\* a token issued at login
C27_Witness ==
    \E q \in ReqIds :
        /\ IsLogin(q) /\ Len(reqs[q].token) = 1
        /\ \E i \in 1..Len(users) :
              users[i].id = reqs[q].token[1].payload.sub

---------------------------------------------------------------------------
\* C28: every request receives at most one response: no handler or
\* middleware path (validateData, isAuth, the auth and expense controllers,
\* errorHandler followed by the not-found handler) sends a second response
\* after one has been sent for the same request.
C28_AtMostOneResponse ==
    \A r \in ReqIds : reqs[r].responses <= 1

\* the request errorHandler answered
OnErrorDone(r) == reqs[r].route = "onError" /\ Done(r)

\* C30: errorHandler answers with status 500 when no error status was set
\* on the response (status still 200) and otherwise keeps the status
\* already set, so it never answers an error with status 200; the stack
\* trace in its body is null when NODE_ENV is "production" and present
\* otherwise.
C30_ErrorHandlerStatus ==
    \A r \in ReqIds :
        OnErrorDone(r) =>
            /\ reqs[r].statusCode = OK => reqs[r].status = INTERNAL_SERVER_ERROR
            /\ reqs[r].statusCode # OK => reqs[r].status = reqs[r].statusCode
            /\ reqs[r].status # OK
            /\ reqs[r].nodeEnv = "production" => reqs[r].stack = <<>>
            /\ reqs[r].nodeEnv # "production" =>
                  /\ Len(reqs[r].stack) = 1
                  /\ reqs[r].stack[1] \in {SyntaxError.stack, OtherError.stack}

\* one error answered with the status already set, in production; one
\* answered 500 with its stack, NODE_ENV not set
C30_Witness ==
    \E a \in ReqIds, b \in ReqIds :
        /\ OnErrorDone(a) /\ reqs[a].statusCode = BAD_REQUEST
        /\ reqs[a].status = BAD_REQUEST /\ reqs[a].nodeEnv = "production"
        /\ reqs[a].stack = <<>>
        /\ OnErrorDone(b) /\ reqs[b].statusCode = OK
        /\ reqs[b].status = INTERNAL_SERVER_ERROR /\ reqs[b].nodeEnv = Absent
        /\ reqs[b].stack # <<>>

---------------------------------------------------------------------------
\* C22: there is no revocation: once a token has been issued, the Auth
\* Gate accepts it on every later request up to its expiry, whatever
\* register, login or expense operations happen in between.
C22_NoRevocation ==
    \A t \in ClientTokens : ~Expired(t) => GateAccepts(t)

\* alice's token accepted after a registration, a login or an expense
\* write was handled
C22_Witness ==
    \E a \in ReqIds, b \in ReqIds :
        /\ a < b /\ Done(a)
        /\ \/ IsLogin(a) /\ reqs[a].status = CREATED
           \/ reqs[a].route = "createExpense" /\ reqs[a].status = CREATED
        /\ reqs[b].route \in {"me", "users", "getExpenses", "getExpense"}
        /\ reqs[b].status = OK
        /\ Carried(reqs[b].header) # <<>>
        /\ Carried(reqs[b].header)[1] \in held

\* C24: the set of stored users only grows: once a user row has been
\* created by registration, no operation of the API (register, login,
\* GET /users, /me, any expense route) changes or removes it.
C24_UsersOnlyGrow ==
    [][\A i \in 1..Len(users) :
          Len(users') >= i /\ users'[i] = users[i]]_vars

\* a second user was stored next to the first
C24_Witness ==
    /\ Len(users) = 2 /\ users[1] = SeedUsers[1]
    /\ \E r \in ReqIds : IsRegister(r) /\ reqs[r].status = CREATED

\* validateData answers request q itself: its body violates the schema
RejectedByValidator(q) ==
    \/ q.route \in {"register", "login"} /\ Violations(q) # {}
    \/ q.route = "createExpense" /\ (q.expense.userId < 1 \/ q.expense.amount <= 0)
    \/ q.route \in {"register", "login", "createExpense"} /\ q.threw = "parse"

ReadOnlyRoutes == {"login", "users", "me", "getExpenses", "getExpense"}

\* C29: POST /login, GET /users, GET /me, GET /expenses, GET /expenses/:id
\* and the isAuth and validateData middlewares are read-only: whatever
\* their outcome, the user store and the expense store are unchanged by
\* them.
C29_ReadOnly ==
    [][\A r \in ReqIds :
         (reqs[r].pc = "idle"
          /\ (reqs'[r].route \in ReadOnlyRoutes \/ RejectedByValidator(reqs'[r]))) =>
            users' = users /\ expenses' = expenses]_vars

\* a login that succeeded and a POST /expenses for a stored user that
\* validateData rejected, the stores as they were
C29_Witness ==
    \E a \in ReqIds, b \in ReqIds :
        /\ IsLogin(a) /\ reqs[a].status = CREATED
        /\ reqs[b].route = "createExpense" /\ reqs[b].status = BAD_REQUEST
        /\ reqs[b].expense.userId = 1
        /\ users = <<SeedUsers[1]>> /\ expenses = <<>>

====
